---- MODULE Spec2Model ----
(***************************************************************************)
(* A state-machine model of VoiceChatClient (src/unnamed/part_001), the    *)
(* client-side session engine of the WebTransport voice chat demo, and of  *)
(* the part of the WebTransport / Streams objects it drives.               *)
(*                                                                         *)
(* Conventions                                                             *)
(*   - a byte is a number in 0..255, a Uint8Array a sequence of bytes, a   *)
(*     string the sequence of its UTF-8 bytes;                             *)
(*   - `T | null` is a sequence of length <= 1: Null is <<>>, Some(x) is   *)
(*     <<x>>;                                                              *)
(*   - a bigint is the sequence of its base-256 digits, most significant   *)
(*     first, without leading zero digits (0n is <<>>); a negative int64   *)
(*     v is <<-1>> followed by the 8 digits of v + 2^64.  TLC's integers   *)
(*     are 32 bits wide, so 64-bit values are never held as one number.    *)
(*   - op, arg, raised, wrote and fired describe the step just taken: the  *)
(*     operation or handler that ran, its input, the error it raised to    *)
(*     its caller, the datagram writes it issued and the observer events   *)
(*     it fired.                                                           *)
(***************************************************************************)
EXTENDS Integers, Sequences, FiniteSets, TLC

VARIABLES
    connected,        \* VoiceChatClient.connected
    datagramWriter,   \* VoiceChatClient.datagramWriter (Null or Some("writer"))
    sessionId,        \* VoiceChatClient.sessionId (bigint | null)
    username,         \* VoiceChatClient.username (string | null)
    currentRoomKey,   \* VoiceChatClient.currentRoomKey (string | null)
    wtState,          \* WebTransport session: connecting, connected, closed, failed
    wtReady,          \* wt.ready: pending, resolved, rejected
    writableLocked,   \* wt.datagrams.writable is locked to a writer
    writableState,    \* wt.datagrams.writable: writable, closing, closed, errored
    closedHandlers,   \* wt.closed reactions attached by connect() and not yet run
    loop,             \* the three read loops: notStarted, reading, done, failed
    pcConnect,        \* the connect() call in flight: idle, awaitReady
    pcClose,          \* the close() call in flight: idle, awaitWriterClose
    op, arg, raised, wrote, fired,
    joinAcked,        \* history: a JOIN_ROOM_RESPONSE was handled after the latest
                      \* joinRoom, with no leaveRoom or completed close() since
    streams           \* the readFromStream calls: per accepted stream, how far
                      \* the call is and the chunks it has buffered

vars == <<connected, datagramWriter, sessionId, username, currentRoomKey,
          wtState, wtReady, writableLocked, writableState, closedHandlers,
          loop, pcConnect, pcClose,
          op, arg, raised, wrote, fired, joinAcked, streams>>

clientVars == <<connected, datagramWriter, sessionId, username, currentRoomKey>>
transportVars == <<wtState, wtReady, writableLocked, writableState>>

(***************************************************************************)
(* Bounds of the model.                                                    *)
(***************************************************************************)
MaxAudioLen == 3
MaxClosedHandlers == 2
MaxStreams == 2
MaxChunks == 2

(***************************************************************************)
(* Optional values, bytes, bigints.                                        *)
(***************************************************************************)
Null == <<>>
Some(x) == <<x>>
Get(o) == o[1]

Zero == <<>>

\* `!x` for x : bigint | null -- null and 0n are both falsy.
NotBigInt(o) == o = Null \/ Get(o) = Zero

\* `!x` for x : string | null -- null and "" are both falsy.
NotString(o) == o = Null \/ Get(o) = <<>>

\* `!x` for an object reference -- only null is falsy.
NotObject(o) == o = Null

\* (result << 8n) | BigInt(b) on the digit representation.
ShiftOr(result, b) ==
    IF result = Zero THEN (IF b = 0 THEN Zero ELSE <<b>>) ELSE Append(result, b)

RECURSIVE bytesToBigIntLoop(_, _, _)
bytesToBigIntLoop(bytes, i, result) ==
    IF i > Len(bytes) THEN result
    ELSE bytesToBigIntLoop(bytes, i + 1, ShiftOr(result, bytes[i]))

bytesToBigInt(bytes) == bytesToBigIntLoop(bytes, 1, Zero)

\* Uint8Array.prototype.slice(from) and slice(from, to), 0-based, `to` exclusive.
SliceFrom(data, from) == SubSeq(data, from + 1, Len(data))
Slice(data, from, to) ==
    SubSeq(data, from + 1, IF to < Len(data) THEN to ELSE Len(data))

(***************************************************************************)
(* The protobuf wire format, as far as fromBinary / toBinary of            *)
(* @bufbuild/protobuf are used: a message is a sequence of fields, each a  *)
(* one-byte tag (field number * 8 + wire type) and a value; wire type 0 is *)
(* a base-128 varint, wire type 2 a length-prefixed byte string.           *)
(***************************************************************************)
RECURSIVE VarintEnd(_, _, _)
\* The index of the last byte of the varint that starts at data[i]; 0 when the
\* input ends first or the varint is longer than 10 bytes (fromBinary throws).
VarintEnd(data, i, n) ==
    IF i > Len(data) \/ n > 10 THEN 0
    ELSE IF data[i] < 128 THEN i
    ELSE VarintEnd(data, i + 1, n + 1)

\* Bit j (0 = least significant) of the varint held in data[i..e].
VarintBit(data, i, e, j) ==
    LET g == i + (j \div 7)
    IN  IF g > e THEN 0 ELSE ((data[g] % 128) \div (2 ^ (j % 7))) % 2

\* Byte k (0 = least significant) of the low 64 bits of that varint.
VarintByte(data, i, e, k) ==
    LET b(t) == VarintBit(data, i, e, 8 * k + t) * (2 ^ t)
    IN  b(0) + b(1) + b(2) + b(3) + b(4) + b(5) + b(6) + b(7)

\* The varint as an int64 bigint.
VarintInt64(data, i, e) ==
    LET be == [n \in 1..8 |-> VarintByte(data, i, e, 8 - n)]
    IN  IF be[1] >= 128 THEN <<-1>> \o be ELSE bytesToBigInt(be)

\* The varint as a small number (a length prefix); -1 when it exceeds 2 bytes.
VarintSmall(data, i, e) ==
    IF e = i THEN data[i]
    ELSE IF e = i + 1 THEN (data[i] % 128) + 128 * data[e]
    ELSE -1

RECURSIVE DecodeFields(_, _, _)
\* The fields of a message, in wire order, or a parse failure.
DecodeFields(data, i, acc) ==
    IF i > Len(data) THEN [ok |-> TRUE, fields |-> acc]
    ELSE LET tag == data[i]
             num == tag \div 8
             wt  == tag % 8
         IN  IF tag >= 128 \/ num = 0 THEN [ok |-> FALSE, fields |-> <<>>]
             ELSE IF wt = 0 THEN
                 LET e == VarintEnd(data, i + 1, 1)
                 IN  IF e = 0 THEN [ok |-> FALSE, fields |-> <<>>]
                     ELSE DecodeFields(data, e + 1,
                            Append(acc, [num |-> num, wt |-> 0,
                                         int |-> VarintInt64(data, i + 1, e),
                                         bytes |-> <<>>]))
             ELSE IF wt = 2 THEN
                 LET e == VarintEnd(data, i + 1, 1)
                     n == IF e = 0 THEN -1 ELSE VarintSmall(data, i + 1, e)
                 IN  IF n < 0 \/ e + n > Len(data)
                     THEN [ok |-> FALSE, fields |-> <<>>]
                     ELSE DecodeFields(data, e + n + 1,
                            Append(acc, [num |-> num, wt |-> 2, int |-> Zero,
                                         bytes |-> SubSeq(data, e + 1, e + n)]))
             ELSE [ok |-> FALSE, fields |-> <<>>]

RECURSIVE LastInt(_, _, _)
\* A singular varint field: the last occurrence wins, the proto3 default is 0.
LastInt(fields, num, i) ==
    IF i = 0 THEN Zero
    ELSE IF fields[i].num = num /\ fields[i].wt = 0 THEN fields[i].int
    ELSE LastInt(fields, num, i - 1)

\* fromBinary(AuthResponseSuccessSchema, data): int64 session_id = 1.
AuthResponseSuccessFromBinary(data) ==
    LET r == DecodeFields(data, 1, <<>>)
    IN  [ok |-> r.ok,
         sessionId |-> IF r.ok THEN LastInt(r.fields, 1, Len(r.fields)) ELSE Zero]

\* fromBinary(AuthResponseErrorSchema, data): Type type = 1.
AuthResponseErrorFromBinary(data) ==
    LET r == DecodeFields(data, 1, <<>>)
    IN  [ok |-> r.ok,
         type |-> IF r.ok THEN LastInt(r.fields, 1, Len(r.fields)) ELSE Zero]

\* fromBinary(RoomUserSchema, data): a user is held as its decoded fields.
RoomUserFromBinary(data) ==
    LET r == DecodeFields(data, 1, <<>>)
    IN  [ok |-> r.ok, user |-> r.fields]

RECURSIVE RepeatedUsers(_, _, _)
RepeatedUsers(fields, i, acc) ==
    IF i > Len(fields) THEN [ok |-> TRUE, users |-> acc]
    ELSE IF fields[i].num = 1 /\ fields[i].wt = 2 THEN
        LET u == RoomUserFromBinary(fields[i].bytes)
        IN  IF u.ok THEN RepeatedUsers(fields, i + 1, Append(acc, u.user))
            ELSE [ok |-> FALSE, users |-> <<>>]
    ELSE RepeatedUsers(fields, i + 1, acc)

\* fromBinary(JoinRoomResponseSchema, data): repeated RoomUser users = 1.
JoinRoomResponseFromBinary(data) ==
    LET r == DecodeFields(data, 1, <<>>)
    IN  IF r.ok THEN RepeatedUsers(r.fields, 1, <<>>)
        ELSE [ok |-> FALSE, users |-> <<>>]

\* A proto3 string field: omitted when empty, else tag, length, UTF-8 bytes.
StringField(num, s) == IF s = <<>> THEN <<>> ELSE <<num * 8 + 2, Len(s)>> \o s

\* toBinary(AuthRequestSchema, {username, token: ""}).
AuthRequestToBinary(name) == StringField(1, name) \o StringField(2, <<>>)

\* toBinary(JoinRoomRequestSchema, {roomKey}).
JoinRoomRequestToBinary(roomKey) == StringField(1, roomKey)

(***************************************************************************)
(* enum PacketType.                                                        *)
(***************************************************************************)
AUTH_REQUEST == 0
AUTH_RESPONSE_SUCCESS == 1
AUTH_RESPONSE_ERROR == 2
JOIN_ROOM_REQUEST == 3
JOIN_ROOM_RESPONSE == 4
USER_JOINED == 5
USER_LEFT == 6

\* The marker sendVoiceData prepends and processDatagramData looks for (0xFF).
VoiceMarker == 255

(***************************************************************************)
(* The inputs the environment and the caller draw from.                    *)
(***************************************************************************)
Audio(n) == [i \in 1..n |-> i]

\* big_endian_u64 of a non-negative bigint below 2^64.
BE64(v) == [i \in 1..8 |-> IF i <= 8 - Len(v) THEN 0 ELSE v[i - (8 - Len(v))]]

MaxU64 == [i \in 1..8 |-> 255]
SampleIds == {Zero, <<42>>, MaxU64}

\* What a caller hands to sendVoiceData: any bytes, among them bytes that
\* themselves begin with an 8-byte identifier.
AudioPayloads ==
    {Audio(n) : n \in 0..MaxAudioLen}
        \cup {BE64(<<42>>) \o Audio(MaxAudioLen)}

Usernames == {<<>>, <<97>>}
RoomKeys == {<<>>, <<114>>}

\* Voice datagrams as the wire format lays them out, well-formed and short.
VoiceDatagrams ==
    {<<VoiceMarker>> \o BE64(s) \o Audio(MaxAudioLen) : s \in SampleIds}
        \cup {<<VoiceMarker>> \o BE64(<<42>>), <<VoiceMarker>>,
              <<VoiceMarker>> \o SubSeq(BE64(<<42>>), 2, 8)}

\* -1 as a ten-byte varint.
MinusOneVarint == <<255, 255, 255, 255, 255, 255, 255, 255, 255, 1>>

ControlDatagrams ==
    { <<>>, <<AUTH_REQUEST>>, <<JOIN_ROOM_REQUEST, 10, 1, 114>>, <<7, 1>>,
      <<AUTH_RESPONSE_SUCCESS>>, <<AUTH_RESPONSE_SUCCESS, 8, 42>>,
      <<AUTH_RESPONSE_SUCCESS, 8>> \o MinusOneVarint, <<AUTH_RESPONSE_SUCCESS, 8, 128, 2>>,
      <<AUTH_RESPONSE_SUCCESS, 8>>,
      <<AUTH_RESPONSE_ERROR, 8, 1>>, <<AUTH_RESPONSE_ERROR, 8>>,
      <<JOIN_ROOM_RESPONSE, 10, 2, 8, 7, 10, 4, 8, 9, 18, 0>>,
      <<JOIN_ROOM_RESPONSE, 10, 5, 8>>,
      <<USER_JOINED, 8, 9>>, <<USER_JOINED, 8>>,
      <<USER_LEFT>> \o BE64(<<7>>), <<USER_LEFT>> \o MaxU64,
      <<USER_LEFT, 0, 0, 7>>, <<USER_LEFT>> \o BE64(<<7>>) \o <<9>>,
      <<USER_LEFT>> \o MaxU64 \o <<9>> }

\* Everything the datagram loop may be handed, the client's own voice
\* datagrams (looped back by a peer) included.
InboundDatagrams ==
    VoiceDatagrams \cup ControlDatagrams
        \cup {<<VoiceMarker>> \o a : a \in AudioPayloads}

\* One datagram of each kind: what the session's life depends on.
SessionDatagrams ==
    { <<AUTH_RESPONSE_SUCCESS>>, <<AUTH_RESPONSE_SUCCESS, 8, 42>>,
      <<AUTH_RESPONSE_SUCCESS, 8>>, <<AUTH_RESPONSE_ERROR, 8, 1>>,
      <<JOIN_ROOM_RESPONSE, 10, 2, 8, 7>>, <<USER_JOINED, 8, 9>>,
      <<USER_LEFT>> \o BE64(<<7>>),
      <<VoiceMarker>> \o BE64(<<42>>) \o Audio(MaxAudioLen),
      <<VoiceMarker>> \o Audio(MaxAudioLen) }

Loops == {"datagrams", "unidirectional", "bidirectional"}

\* The two loops that accept streams.
AcceptLoops == {"unidirectional", "bidirectional"}

\* The accepted streams a behaviour may see.
Streams == 1..MaxStreams

\* The chunks a stream may deliver: a packet type byte, a message body (the
\* session_id field, 42) and a whole voice frame from sender 42.
StreamChunks ==
    {<<AUTH_RESPONSE_SUCCESS>>, <<8, 42>>, <<VoiceMarker>> \o BE64(<<42>>)}

\* No readFromStream call; a call awaiting reader.read() with its chunks.
NoStream == [st |-> "free", chunks |-> <<>>]
ReadingStream(chunks) == [st |-> "reading", chunks |-> chunks]

(***************************************************************************)
(* The observer (VoiceChatClientEvents): every callback slot is filled and *)
(* an event is recorded as its name and arguments.                         *)
(***************************************************************************)
Ev(name, args) == [name |-> name, args |-> args]

NoError == "none"

(***************************************************************************)
(* Inbound dispatch.  A handler yields what it does: the value it assigns  *)
(* to this.sessionId (Null when it assigns nothing), the events it fires   *)
(* and whether it took in a JOIN_ROOM_RESPONSE.  A handler that throws     *)
(* inside its try block, or that returns early, is Dropped.                *)
(***************************************************************************)
Dropped == [assign |-> Null, fired |-> <<>>, joined |-> FALSE]

Fires(event) == [Dropped EXCEPT !.fired = <<event>>]

AuthSuccess(id) ==
    [assign |-> Some(id), fired |-> <<Ev("onAuthSuccess", <<id>>)>>, joined |-> FALSE]

\* handleAuthResponseSuccess without `this.sessionId = response.sessionId`.
handleAuthResponseSuccessNoAssign(data) ==
    LET response == AuthResponseSuccessFromBinary(data)
    IN  IF response.ok
        THEN Fires(Ev("onAuthSuccess", <<response.sessionId>>))
        ELSE Dropped

handleAuthResponseSuccess(data) ==
    LET response == AuthResponseSuccessFromBinary(data)
    IN  IF response.ok THEN AuthSuccess(response.sessionId) ELSE Dropped

\* handleAuthResponseError with the success handler's assignment copied in:
\* `this.sessionId = response.type`.
handleAuthResponseErrorAssigns(data) ==
    LET response == AuthResponseErrorFromBinary(data)
    IN  IF response.ok
        THEN [assign |-> Some(response.type),
              fired |-> <<Ev("onAuthError", <<response.type>>)>>, joined |-> FALSE]
        ELSE Dropped

handleAuthResponseError(data) ==
    LET response == AuthResponseErrorFromBinary(data)
    IN  IF response.ok THEN Fires(Ev("onAuthError", <<response.type>>)) ELSE Dropped

handleJoinRoomResponse(data) ==
    LET response == JoinRoomResponseFromBinary(data)
    IN  IF response.ok
        THEN [Fires(Ev("onJoinedRoom", <<response.users>>)) EXCEPT !.joined = TRUE]
        ELSE Dropped

handleUserJoined(data) ==
    LET user == RoomUserFromBinary(data)
    IN  IF user.ok THEN Fires(Ev("onUserJoined", <<user.user>>)) ELSE Dropped

\* handleUserLeft with `data.length > 8` for `data.length >= 8`.
handleUserLeftOffByOne(data) ==
    IF Len(data) > 8
    THEN Fires(Ev("onUserLeft", <<bytesToBigInt(data)>>))
    ELSE Dropped

handleUserLeft(data) ==
    IF Len(data) >= 8
    THEN Fires(Ev("onUserLeft", <<bytesToBigInt(data)>>))
    ELSE Dropped

\* processProtobufData with the case labels one too low: AUTH_REQUEST is
\* handled as AUTH_RESPONSE_SUCCESS.
processProtobufDataOffByOne(data) ==
    IF Len(data) < 1 THEN Dropped
    ELSE LET packetType == data[1]
             messageData == SliceFrom(data, 1)
         IN  CASE packetType = AUTH_REQUEST -> handleAuthResponseSuccess(messageData)
               [] packetType = AUTH_RESPONSE_SUCCESS -> handleAuthResponseError(messageData)
               [] packetType = JOIN_ROOM_REQUEST -> handleJoinRoomResponse(messageData)
               [] packetType = JOIN_ROOM_RESPONSE -> handleUserJoined(messageData)
               [] packetType = USER_JOINED -> handleUserLeft(messageData)
               [] OTHER -> Dropped

processProtobufData(data) ==
    IF Len(data) < 1 THEN Dropped
    ELSE LET packetType == data[1]
             messageData == SliceFrom(data, 1)
         IN  CASE packetType = AUTH_RESPONSE_SUCCESS -> handleAuthResponseSuccess(messageData)
               [] packetType = AUTH_RESPONSE_ERROR -> handleAuthResponseError(messageData)
               [] packetType = JOIN_ROOM_RESPONSE -> handleJoinRoomResponse(messageData)
               [] packetType = USER_JOINED -> handleUserJoined(messageData)
               [] packetType = USER_LEFT -> handleUserLeft(messageData)
               [] OTHER -> Dropped

\* processDatagramData with `voiceData.length >= 7` for `>= 8`.
processDatagramDataOffByOne(data) ==
    IF Len(data) > 0 /\ data[1] = VoiceMarker
    THEN LET voiceData == SliceFrom(data, 1)
         IN  IF Len(voiceData) >= 7
             THEN LET sessionIdBytes == Slice(voiceData, 0, 8)
                      actualVoiceData == SliceFrom(voiceData, 8)
                  IN  Fires(Ev("onVoiceData",
                               <<bytesToBigInt(sessionIdBytes), actualVoiceData>>))
             ELSE Dropped
    ELSE processProtobufData(data)

processDatagramData(data) ==
    IF Len(data) > 0 /\ data[1] = VoiceMarker
    THEN LET voiceData == SliceFrom(data, 1)
         IN  IF Len(voiceData) >= 8
             THEN LET sessionIdBytes == Slice(voiceData, 0, 8)
                      actualVoiceData == SliceFrom(voiceData, 8)
                  IN  Fires(Ev("onVoiceData",
                               <<bytesToBigInt(sessionIdBytes), actualVoiceData>>))
             ELSE Dropped
    ELSE processProtobufData(data)

\* processDatagramData on every datagram of the model, computed once.
DatagramDispatch ==
    {<<d, processDatagramData(d)>> : d \in InboundDatagrams \cup SessionDatagrams}

Dispatched(data) == (CHOOSE p \in DatagramDispatch : p[1] = data)[2]

\* readFromStream's "Combine all chunks": the chunks copied one after the
\* other, in the order they were pushed.
RECURSIVE combinedDataLoop(_, _, _)
combinedDataLoop(chunks, i, acc) ==
    IF i > Len(chunks) THEN acc
    ELSE combinedDataLoop(chunks, i + 1, acc \o chunks[i])

\* combinedData with each chunk copied in front of the ones before it.
combinedDataReversed(chunks) ==
    IF chunks = <<>> THEN <<>>
    ELSE combinedDataLoop([i \in 1..Len(chunks) |-> chunks[Len(chunks) + 1 - i]],
                          1, <<>>)

combinedData(chunks) == combinedDataLoop(chunks, 1, <<>>)

\* All sequences of at most n chunks.
RECURSIVE ChunkSeqs(_)
ChunkSeqs(n) ==
    IF n = 0 THEN {<<>>}
    ELSE LET shorter == ChunkSeqs(n - 1)
         IN  shorter \cup {Append(q, c) : q \in shorter, c \in StreamChunks}

\* Everything a fully read stream may hand to processProtobufData: the
\* chunks of every sequence, joined in either order, so that the table below
\* has an entry whichever way the chunks are combined.
StreamPayloads ==
    {combinedData(q) : q \in ChunkSeqs(MaxChunks)}
        \cup {combinedDataReversed(q) : q \in ChunkSeqs(MaxChunks)}

\* processProtobufData on every stream payload of the model, computed once.
StreamDispatch == {<<d, processProtobufData(d)>> : d \in StreamPayloads}

StreamDispatched(data) == (CHOOSE p \in StreamDispatch : p[1] = data)[2]

(***************************************************************************)
(* Outbound framing and the datagram writer.                               *)
(***************************************************************************)
\* WritableStreamDefaultWriter.write(chunk): the call is issued; its promise
\* rejects, and the awaiting caller raises, unless the stream is writable.
WriterWrite(packet) ==
    [raised |-> IF writableState = "writable" THEN NoError ELSE "write rejected",
     wrote |-> <<packet>>]

\* sendVoiceData's frame: the marker byte, then the caller's bytes.
voiceDataPacket(data) == <<VoiceMarker>> \o data

\* sendProtobufMessage's frame: the packet type byte, then the message bytes.
protobufPacket(packetType, messageBytes) == <<packetType>> \o messageBytes

\* sendProtobufMessage writing the type byte and the message bytes in two
\* write calls instead of one combined packet.
sendProtobufMessageTwoWrites(packetType, messageBytes) ==
    IF NotObject(datagramWriter)
    THEN [raised |-> "Datagram writer not available", wrote |-> <<>>]
    ELSE [raised |-> WriterWrite(messageBytes).raised,
          wrote |-> << <<packetType>>, messageBytes >>]

sendProtobufMessage(packetType, messageBytes) ==
    IF NotObject(datagramWriter)
    THEN [raised |-> "Datagram writer not available", wrote |-> <<>>]
    ELSE WriterWrite(protobufPacket(packetType, messageBytes))

(***************************************************************************)
(* The state after `new VoiceChatClient(config, events)`: the constructor  *)
(* creates the WebTransport, which starts connecting.                      *)
(***************************************************************************)
Init ==
    /\ connected = FALSE
    /\ datagramWriter = Null
    /\ sessionId = Null
    /\ username = Null
    /\ currentRoomKey = Null
    /\ wtState = "connecting"
    /\ wtReady = "pending"
    /\ writableLocked = FALSE
    /\ writableState = "writable"
    /\ closedHandlers = 0
    /\ loop = [l \in Loops |-> "notStarted"]
    /\ pcConnect = "idle"
    /\ pcClose = "idle"
    /\ op = "new"
    /\ arg = <<>>
    /\ raised = NoError
    /\ wrote = <<>>
    /\ fired = <<>>
    /\ joinAcked = FALSE
    /\ streams = [s \in Streams |-> NoStream]

\* What a step reports of itself.
Step(o, a, r, w, f) ==
    /\ op' = o
    /\ arg' = a
    /\ raised' = r
    /\ wrote' = w
    /\ fired' = f

(***************************************************************************)
(* The WebTransport session (the environment).                             *)
(***************************************************************************)
\* The datagram writable when the session ends: errored unless already closed.
WritableAfterSessionEnd ==
    IF writableState \in {"writable", "closing"} THEN "errored" ELSE writableState

\* The session is established: wt.ready resolves.
TransportReady ==
    /\ wtState = "connecting"
    /\ wtState' = "connected"
    /\ wtReady' = "resolved"
    /\ Step("transportReady", <<>>, NoError, <<>>, <<>>)
    /\ UNCHANGED <<streams, clientVars, writableLocked, writableState, closedHandlers, loop,
                   pcConnect, pcClose, joinAcked>>

\* The session cannot be established: wt.ready and wt.closed reject.
TransportRefused ==
    /\ wtState = "connecting"
    /\ wtState' = "failed"
    /\ wtReady' = "rejected"
    /\ writableState' = WritableAfterSessionEnd
    /\ Step("transportRefused", <<>>, NoError, <<>>, <<>>)
    /\ UNCHANGED <<streams, clientVars, writableLocked, closedHandlers, loop,
                   pcConnect, pcClose, joinAcked>>

\* The peer closes the established session: wt.closed resolves.
TransportClosed ==
    /\ wtState = "connected"
    /\ wtState' = "closed"
    /\ writableState' = WritableAfterSessionEnd
    /\ Step("transportClosed", <<>>, NoError, <<>>, <<>>)
    /\ UNCHANGED <<streams, clientVars, wtReady, writableLocked, closedHandlers, loop,
                   pcConnect, pcClose, joinAcked>>

\* The established session is lost: wt.closed rejects.
TransportLost ==
    /\ wtState = "connected"
    /\ wtState' = "failed"
    /\ writableState' = WritableAfterSessionEnd
    /\ Step("transportLost", <<>>, NoError, <<>>, <<>>)
    /\ UNCHANGED <<streams, clientVars, wtReady, writableLocked, closedHandlers, loop,
                   pcConnect, pcClose, joinAcked>>

\* wt.closed has settled.
WtClosedSettled == wtState \in {"closed", "failed"}

(***************************************************************************)
(* connect().                                                              *)
(***************************************************************************)
\* connect() is called and suspends at `await this.wt.ready`.
ConnectCall ==
    /\ pcConnect = "idle"
    /\ closedHandlers < MaxClosedHandlers
    /\ pcConnect' = "awaitReady"
    /\ Step("connectCall", <<>>, NoError, <<>>, <<>>)
    /\ UNCHANGED <<streams, clientVars, transportVars, closedHandlers, loop, pcClose, joinAcked>>

\* ConnectReady with onConnected fired before the writer is taken and the
\* loops are started, which are then left out.
ConnectReadyEarlyEvent ==
    /\ pcConnect = "awaitReady"
    /\ wtReady = "resolved"
    /\ pcConnect' = "idle"
    /\ closedHandlers' = closedHandlers + 1
    /\ connected' = TRUE
    /\ Step("connect", <<>>, NoError, <<>>, <<Ev("onConnected", <<>>)>>)
    /\ UNCHANGED <<streams, datagramWriter, writableLocked, loop, sessionId,
                   username, currentRoomKey, wtState, wtReady, writableState,
                   pcClose, joinAcked>>

\* wt.ready resolved: the rest of the try block runs without suspending.
\* getWriter() throws when the writable is already locked, and the catch
\* block then takes over.
ConnectReady ==
    /\ pcConnect = "awaitReady"
    /\ wtReady = "resolved"
    /\ pcConnect' = "idle"
    /\ closedHandlers' = closedHandlers + 1
    /\ IF writableLocked
       THEN /\ connected' = FALSE
            /\ Step("connect", <<>>, "getWriter failed", <<>>,
                    <<Ev("onConnectionError", <<"Failed to establish connection">>)>>)
            /\ UNCHANGED <<datagramWriter, writableLocked, loop>>
       ELSE /\ connected' = TRUE
            /\ datagramWriter' = Some("writer")
            /\ writableLocked' = TRUE
            /\ loop' = [l \in Loops |-> "reading"]
            /\ Step("connect", <<>>, NoError, <<>>, <<Ev("onConnected", <<>>)>>)
    /\ UNCHANGED <<streams, sessionId, username, currentRoomKey, wtState, wtReady,
                   writableState, pcClose, joinAcked>>

\* wt.ready rejected: the catch block.
ConnectFailed ==
    /\ pcConnect = "awaitReady"
    /\ wtReady = "rejected"
    /\ pcConnect' = "idle"
    /\ connected' = FALSE
    /\ Step("connect", <<>>, "ready rejected", <<>>,
            <<Ev("onConnectionError", <<"Failed to establish connection">>)>>)
    /\ UNCHANGED <<streams, datagramWriter, sessionId, username, currentRoomKey,
                   transportVars, closedHandlers, loop, pcClose, joinAcked>>

\* ClosedSignal with `this.connected = false` missing from the .then() branch.
ClosedSignalThenKeepsConnected ==
    /\ closedHandlers > 0
    /\ WtClosedSettled
    /\ closedHandlers' = closedHandlers - 1
    /\ connected' = (IF wtState = "closed" THEN connected ELSE FALSE)
    /\ Step("closedSignal", <<>>, NoError, <<>>,
            IF wtState = "closed"
            THEN <<Ev("onConnectionClosed", <<>>)>>
            ELSE <<Ev("onConnectionError", <<"Connection closed abruptly">>)>>)
    /\ UNCHANGED <<streams, datagramWriter, sessionId, username, currentRoomKey,
                   transportVars, loop, pcConnect, pcClose, joinAcked>>

\* A reaction connect() attached to wt.closed runs.
ClosedSignal ==
    /\ closedHandlers > 0
    /\ WtClosedSettled
    /\ closedHandlers' = closedHandlers - 1
    /\ connected' = FALSE
    /\ Step("closedSignal", <<>>, NoError, <<>>,
            IF wtState = "closed"
            THEN <<Ev("onConnectionClosed", <<>>)>>
            ELSE <<Ev("onConnectionError", <<"Connection closed abruptly">>)>>)
    /\ UNCHANGED <<streams, datagramWriter, sessionId, username, currentRoomKey,
                   transportVars, loop, pcConnect, pcClose, joinAcked>>

(***************************************************************************)
(* authenticate, joinRoom, leaveRoom, sendVoiceData.                       *)
(***************************************************************************)
\* authenticate without its `if (!this.connected)` check.
authenticateUnchecked(name) ==
    /\ LET sent == sendProtobufMessage(AUTH_REQUEST, AuthRequestToBinary(name))
       IN  /\ username' = Some(name)
           /\ Step("authenticate", name, sent.raised, sent.wrote, <<>>)
    /\ UNCHANGED <<streams, connected, datagramWriter, sessionId, currentRoomKey,
                   transportVars, closedHandlers, loop, pcConnect, pcClose,
                   joinAcked>>

authenticate(name) ==
    /\ IF ~connected
       THEN /\ Step("authenticate", name, "Not connected to server", <<>>, <<>>)
            /\ UNCHANGED username
       ELSE LET sent == sendProtobufMessage(AUTH_REQUEST, AuthRequestToBinary(name))
            IN  /\ username' = Some(name)
                /\ Step("authenticate", name, sent.raised, sent.wrote, <<>>)
    /\ UNCHANGED <<streams, connected, datagramWriter, sessionId, currentRoomKey,
                   transportVars, closedHandlers, loop, pcConnect, pcClose, joinAcked>>

\* joinRoom without its `if (!this.sessionId)` check.
joinRoomNoSessionCheck(roomKey) ==
    /\ IF ~connected
       THEN /\ Step("joinRoom", roomKey, "Not connected to server", <<>>, <<>>)
            /\ UNCHANGED <<currentRoomKey, joinAcked>>
       ELSE LET sent == sendProtobufMessage(JOIN_ROOM_REQUEST,
                                            JoinRoomRequestToBinary(roomKey))
            IN  /\ currentRoomKey' = Some(roomKey)
                /\ joinAcked' = FALSE
                /\ Step("joinRoom", roomKey, sent.raised, sent.wrote, <<>>)
    /\ UNCHANGED <<streams, connected, datagramWriter, sessionId, username,
                   transportVars, closedHandlers, loop, pcConnect, pcClose>>

joinRoom(roomKey) ==
    /\ IF ~connected
       THEN /\ Step("joinRoom", roomKey, "Not connected to server", <<>>, <<>>)
            /\ UNCHANGED <<currentRoomKey, joinAcked>>
       ELSE IF NotBigInt(sessionId)
       THEN /\ Step("joinRoom", roomKey, "Not authenticated", <<>>, <<>>)
            /\ UNCHANGED <<currentRoomKey, joinAcked>>
       ELSE LET sent == sendProtobufMessage(JOIN_ROOM_REQUEST,
                                            JoinRoomRequestToBinary(roomKey))
            IN  /\ currentRoomKey' = Some(roomKey)
                /\ joinAcked' = FALSE
                /\ Step("joinRoom", roomKey, sent.raised, sent.wrote, <<>>)
    /\ UNCHANGED <<streams, connected, datagramWriter, sessionId, username,
                   transportVars, closedHandlers, loop, pcConnect, pcClose>>

leaveRoom ==
    /\ IF ~connected
       THEN /\ Step("leaveRoom", <<>>, "Not connected to server", <<>>, <<>>)
            /\ UNCHANGED <<currentRoomKey, joinAcked>>
       ELSE IF NotBigInt(sessionId)
       THEN /\ Step("leaveRoom", <<>>, "Not authenticated", <<>>, <<>>)
            /\ UNCHANGED <<currentRoomKey, joinAcked>>
       ELSE IF NotString(currentRoomKey)
       THEN /\ Step("leaveRoom", <<>>, "Not in a room", <<>>, <<>>)
            /\ UNCHANGED <<currentRoomKey, joinAcked>>
       ELSE /\ currentRoomKey' = Null
            /\ joinAcked' = FALSE
            /\ Step("leaveRoom", <<>>, NoError, <<>>, <<>>)
    /\ UNCHANGED <<streams, connected, datagramWriter, sessionId, username,
                   transportVars, closedHandlers, loop, pcConnect, pcClose>>

\* sendVoiceDataError without the `if (!this.currentRoomKey)` check.
sendVoiceDataErrorNoRoomCheck ==
    IF ~connected THEN "Not connected to server"
    ELSE IF NotBigInt(sessionId) THEN "Not authenticated"
    ELSE IF NotObject(datagramWriter) THEN "Datagram writer not available"
    ELSE NoError

\* The precondition failure of sendVoiceData, or NoError.
sendVoiceDataError ==
    IF ~connected THEN "Not connected to server"
    ELSE IF NotBigInt(sessionId) THEN "Not authenticated"
    ELSE IF NotString(currentRoomKey) THEN "Not in a room"
    ELSE IF NotObject(datagramWriter) THEN "Datagram writer not available"
    ELSE NoError

sendVoiceData(data) ==
    /\ IF sendVoiceDataError # NoError
       THEN Step("sendVoiceData", data, sendVoiceDataError, <<>>, <<>>)
       ELSE LET sent == WriterWrite(voiceDataPacket(data))
            IN  Step("sendVoiceData", data, sent.raised, sent.wrote, <<>>)
    /\ UNCHANGED <<streams, clientVars, transportVars, closedHandlers, loop, pcConnect,
                   pcClose, joinAcked>>

(***************************************************************************)
(* close().                                                                *)
(***************************************************************************)
\* WtStateAfterClose of a close() that leaves the transport open.
WtStateAfterCloseLeftOpen == wtState

\* WebTransport.close(): nothing on a session that is closed or failed; a
\* connecting session fails (wt.ready rejects), a connected one closes.
WtStateAfterClose ==
    IF wtState = "connecting" THEN "failed"
    ELSE IF wtState = "connected" THEN "closed"
    ELSE wtState

WtReadyAfterClose == IF wtState = "connecting" THEN "rejected" ELSE wtReady

\* close() from `this.wt.close()` on: lines 210-214.
CloseTail ==
    /\ wtState' = WtStateAfterClose
    /\ wtReady' = WtReadyAfterClose
    /\ connected' = FALSE
    /\ sessionId' = Null
    /\ username' = Null
    /\ currentRoomKey' = Null
    /\ joinAcked' = FALSE

\* close() is called.  Without a writer it runs to its end; with one it calls
\* writer.close() and suspends on the returned promise.
CloseCall ==
    /\ pcClose = "idle"
    /\ IF NotObject(datagramWriter)
       THEN /\ CloseTail
            /\ writableState' = WritableAfterSessionEnd
            /\ Step("close", <<>>, NoError, <<>>, <<>>)
            /\ UNCHANGED <<datagramWriter, pcClose>>
       ELSE /\ pcClose' = "awaitWriterClose"
            /\ writableState' =
                   IF writableState = "writable" THEN "closing" ELSE writableState
            /\ Step("closeCall", <<>>, NoError, <<>>, <<>>)
            /\ UNCHANGED <<clientVars, wtState, wtReady, joinAcked>>
    /\ UNCHANGED <<streams, writableLocked, closedHandlers, loop, pcConnect>>

\* writer.close() settles.  WritableStreamDefaultWriter.close() rejects when
\* the stream is errored or was not writable at the call; close() has no
\* handler for that, so the rejection leaves close() at line 206.
CloseResume ==
    /\ pcClose = "awaitWriterClose"
    /\ pcClose' = "idle"
    /\ IF writableState = "closing"
       THEN /\ writableState' = "closed"
            /\ datagramWriter' = Null
            /\ CloseTail
            /\ Step("close", <<>>, NoError, <<>>, <<>>)
       ELSE /\ Step("close", <<>>, "writer.close() rejected", <<>>, <<>>)
            /\ UNCHANGED <<clientVars, wtState, wtReady, writableState, joinAcked>>
    /\ UNCHANGED <<streams, writableLocked, closedHandlers, loop, pcConnect>>

(***************************************************************************)
(* The read loops.                                                         *)
(***************************************************************************)
\* readDatagrams: reader.read() yields a datagram, processDatagramData runs.
ReadDatagram(data) ==
    /\ loop["datagrams"] = "reading"
    /\ LET r == Dispatched(data)
       IN  /\ sessionId' = (IF r.assign = Null THEN sessionId ELSE r.assign)
           /\ joinAcked' = (joinAcked \/ (r.joined /\ currentRoomKey # Null))
           /\ Step("readDatagram", data, NoError, <<>>, r.fired)
    /\ UNCHANGED <<streams, connected, datagramWriter, username, currentRoomKey,
                   transportVars, closedHandlers, loop, pcConnect, pcClose>>

\* LoopEnd with one try/catch around all three loops: the failure one loop
\* observes ends the others with it.
LoopEndSharedCatch(l) ==
    /\ loop[l] = "reading"
    /\ WtClosedSettled
    /\ loop' = IF wtState = "closed" THEN [loop EXCEPT ![l] = "done"]
               ELSE [m \in Loops |-> "failed"]
    /\ Step("loopEnd", <<>>, NoError, <<>>,
            IF wtState = "closed" THEN <<>>
            ELSE <<Ev("onConnectionError", <<"Error reading " \o l>>)>>)
    /\ UNCHANGED <<streams, clientVars, transportVars, closedHandlers, pcConnect,
                   pcClose, joinAcked>>

\* A loop's reader.read() reports the end of its channel (break) or fails
\* (the catch block fires onConnectionError); either way that loop ends.
LoopEnd(l) ==
    /\ loop[l] = "reading"
    /\ WtClosedSettled
    /\ loop' = [loop EXCEPT ![l] = IF wtState = "closed" THEN "done" ELSE "failed"]
    /\ Step("loopEnd", <<>>, NoError, <<>>,
            IF wtState = "closed" THEN <<>>
            ELSE <<Ev("onConnectionError", <<"Error reading " \o l>>)>>)
    /\ UNCHANGED <<streams, clientVars, transportVars, closedHandlers, pcConnect, pcClose, joinAcked>>

(***************************************************************************)
(* The stream loops and readFromStream.                                    *)
(***************************************************************************)
\* The lowest stream not yet accepted, 0 when all have been.
NextFreeStream ==
    IF \E s \in Streams : streams[s].st = "free"
    THEN CHOOSE s \in Streams :
             /\ streams[s].st = "free"
             /\ \A t \in Streams : streams[t].st = "free" => s <= t
    ELSE 0

\* acceptUnidirectionalStreams / acceptBidirectionalStreams: reader.read()
\* yields a stream and readFromStream(stream) is called; the call takes the
\* stream's reader, starts with no chunks and suspends at its first read,
\* and the accept loop goes back to its own read.
AcceptStream(l) ==
    /\ loop[l] = "reading"
    /\ NextFreeStream # 0
    /\ streams' = [streams EXCEPT ![NextFreeStream] = ReadingStream(<<>>)]
    /\ Step("acceptStream", <<>>, NoError, <<>>, <<>>)
    /\ UNCHANGED <<clientVars, transportVars, closedHandlers, loop, pcConnect,
                   pcClose, joinAcked>>

\* readFromStream: reader.read() yields a chunk, which is pushed.
StreamChunk(s, chunk) ==
    /\ streams[s].st = "reading"
    /\ Len(streams[s].chunks) < MaxChunks
    /\ streams' = [streams EXCEPT ![s].chunks = Append(@, chunk)]
    /\ Step("streamChunk", chunk, NoError, <<>>, <<>>)
    /\ UNCHANGED <<clientVars, transportVars, closedHandlers, loop, pcConnect,
                   pcClose, joinAcked>>

\* readFromStream: reader.read() reports done; the chunks are combined and
\* handed to processProtobufData.
StreamDone(s) ==
    /\ streams[s].st = "reading"
    /\ LET data == combinedData(streams[s].chunks)
           r == StreamDispatched(data)
       IN  /\ sessionId' = (IF r.assign = Null THEN sessionId ELSE r.assign)
           /\ joinAcked' = (joinAcked \/ (r.joined /\ currentRoomKey # Null))
           /\ Step("readFromStream", data, NoError, <<>>, r.fired)
    /\ streams' = [streams EXCEPT ![s] = [st |-> "done", chunks |-> <<>>]]
    /\ UNCHANGED <<connected, datagramWriter, username, currentRoomKey,
                   transportVars, closedHandlers, loop, pcConnect, pcClose>>

\* readFromStream: reader.read() rejects (the stream is reset or the session
\* is lost); the catch block reports it and the call ends.
StreamError(s) ==
    /\ streams[s].st = "reading"
    /\ streams' = [streams EXCEPT ![s] = [st |-> "failed", chunks |-> <<>>]]
    /\ Step("streamError", <<>>, NoError, <<>>,
            <<Ev("onConnectionError", <<"Error reading from stream">>)>>)
    /\ UNCHANGED <<clientVars, transportVars, closedHandlers, loop, pcConnect,
                   pcClose, joinAcked>>

(***************************************************************************)
(* The specifications.                                                     *)
(*                                                                         *)
(* Spec is the whole session: the transport, connect(), close(), the       *)
(* caller's operations and the read loops, the datagram loop handing one   *)
(* datagram of each kind to the dispatch.                                  *)
(*                                                                         *)
(* SpecDispatch is the inbound dispatch on its own: a connected session    *)
(* that is handed every datagram of InboundDatagrams, in every order.      *)
(*                                                                         *)
(* SpecStreams is the inbound side of the session with all three loops:    *)
(* the datagram loop, the two accept loops and the readFromStream calls    *)
(* they start, while the transport closes or is lost.                      *)
(*                                                                         *)
(* SpecIdentity is everything that touches the session identifier:         *)
(* authenticate(), close(), the datagrams of the session and an            *)
(* AUTH_RESPONSE_SUCCESS that arrives in chunks on a stream.               *)
(***************************************************************************)
Next ==
    \/ TransportReady
    \/ TransportRefused
    \/ TransportClosed
    \/ TransportLost
    \/ ConnectCall
    \/ ConnectReady
    \/ ConnectFailed
    \/ ClosedSignal
    \/ \E name \in Usernames : authenticate(name)
    \/ \E roomKey \in RoomKeys : joinRoom(roomKey)
    \/ leaveRoom
    \/ \E data \in AudioPayloads : sendVoiceData(data)
    \/ CloseCall
    \/ CloseResume
    \/ \E data \in SessionDatagrams : ReadDatagram(data)
    \/ \E l \in Loops : LoopEnd(l)

Spec == Init /\ [][Next]_vars

NextDispatch ==
    \/ TransportReady
    \/ ConnectCall
    \/ ConnectReady
    \/ \E roomKey \in RoomKeys : joinRoom(roomKey)
    \/ leaveRoom
    \/ \E data \in InboundDatagrams : ReadDatagram(data)

SpecDispatch == Init /\ [][NextDispatch]_vars

\* What the datagram loop is handed while the loops and close() are followed.
StreamSessionDatagrams ==
    { <<AUTH_RESPONSE_SUCCESS>>,
      <<VoiceMarker>> \o BE64(<<42>>) \o Audio(MaxAudioLen) }

\* The session with the scheduling the JavaScript event loop and the
\* transport give: a close() whose writer.close() has settled resumes, and a
\* loop whose pending read has settled (the session has ended) runs on.
NextCancel ==
    \/ TransportReady
    \/ TransportRefused
    \/ TransportClosed
    \/ TransportLost
    \/ ConnectCall
    \/ ConnectReady
    \/ ConnectFailed
    \/ ClosedSignal
    \/ \E name \in Usernames : authenticate(name)
    \/ CloseCall
    \/ CloseResume
    \/ \E data \in StreamSessionDatagrams : ReadDatagram(data)
    \/ \E l \in Loops : LoopEnd(l)

SpecCancel ==
    /\ Init
    /\ [][NextCancel]_vars
    /\ WF_vars(CloseResume)
    /\ \A l \in Loops : WF_vars(LoopEnd(l))

NextStreams ==
    \/ TransportReady
    \/ TransportClosed
    \/ TransportLost
    \/ ConnectCall
    \/ ConnectReady
    \/ \E data \in StreamSessionDatagrams : ReadDatagram(data)
    \/ \E l \in Loops : LoopEnd(l)
    \/ \E l \in AcceptLoops : AcceptStream(l)
    \/ \E s \in Streams, chunk \in StreamChunks : StreamChunk(s, chunk)
    \/ \E s \in Streams : StreamDone(s)
    \/ \E s \in Streams : StreamError(s)

SpecStreams == Init /\ [][NextStreams]_vars

\* The chunks of an AUTH_RESPONSE_SUCCESS that arrives on a stream.
AuthChunks == {<<AUTH_RESPONSE_SUCCESS>>, <<8, 42>>}

NextIdentity ==
    \/ TransportReady
    \/ TransportClosed
    \/ ConnectCall
    \/ ConnectReady
    \/ \E name \in Usernames \ {<<>>} : authenticate(name)
    \/ CloseCall
    \/ CloseResume
    \/ \E data \in SessionDatagrams : ReadDatagram(data)
    \/ \E l \in AcceptLoops : AcceptStream(l)
    \/ \E s \in Streams, chunk \in AuthChunks : StreamChunk(s, chunk)
    \/ \E s \in Streams : StreamDone(s)

SpecIdentity == Init /\ [][NextIdentity]_vars

\* Some connect() call has completed successfully: only that acquires the
\* writer, and the lock is never released.
connectOk == writableLocked

\* The shape of every reachable state.
TypeOK ==
    /\ connected \in BOOLEAN
    /\ datagramWriter \in {Null, Some("writer")}
    /\ Len(sessionId) <= 1
    /\ username \in {Null} \cup {Some(u) : u \in Usernames}
    /\ currentRoomKey \in {Null} \cup {Some(k) : k \in RoomKeys}
    /\ wtState \in {"connecting", "connected", "closed", "failed"}
    /\ wtReady \in {"pending", "resolved", "rejected"}
    /\ writableLocked \in BOOLEAN
    /\ writableState \in {"writable", "closing", "closed", "errored"}
    /\ closedHandlers \in 0..MaxClosedHandlers
    /\ loop \in [Loops -> {"notStarted", "reading", "done", "failed"}]
    /\ pcConnect \in {"idle", "awaitReady"}
    /\ pcClose \in {"idle", "awaitWriterClose"}
    /\ \A s \in Streams :
          /\ streams[s].st \in {"free", "reading", "done", "failed"}
          /\ Len(streams[s].chunks) <= MaxChunks

(***************************************************************************)
(* What the claims speak of.                                               *)
(***************************************************************************)
\* The errors an operation raises for a call made out of sequence.
NotConnected == "Not connected to server"
NotAuthenticated == "Not authenticated"
NotInRoom == "Not in a room"
TransportUnavailable == "Datagram writer not available"

\* The first byte of a datagram, -1 for the empty one.
FirstByte(data) == IF Len(data) = 0 THEN -1 ELSE data[1]

\* The names of the events a step fired.
FiredNames(f) == {f[i].name : i \in 1..Len(f)}

\* The identifiers the inbound datagrams of the model carry.
WireIds == SampleIds \cup {<<7>>}

\* The steps that dispatch an inbound payload.
InboundOps == {"readDatagram", "readFromStream"}

(***************************************************************************)
(* C1.  In any state where the session is connected and holds a session    *)
(* identifier s, a (non-empty) room key and a datagram writer,             *)
(* sendVoice(audio) issues exactly one datagram write, of 0xFF, then s as  *)
(* 8 big-endian bytes, then audio.                                         *)
(***************************************************************************)
C1_VoiceFrameCarriesSessionId ==
    (/\ op = "sendVoiceData"
     /\ connected
     /\ sessionId # Null
     /\ currentRoomKey \notin {Null, Some(<<>>)}
     /\ datagramWriter # Null)
        => wrote = << <<255>> \o BE64(Get(sessionId)) \o arg >>

(***************************************************************************)
(* C2.  authenticate(username), invoked before any connect() has completed *)
(* successfully, fails with NotConnected, issues no datagram write and     *)
(* leaves connected, session id, username and room key as they were.       *)
(***************************************************************************)
C2_AuthenticateBeforeConnect ==
    [][(op' = "authenticate" /\ ~connectOk)
          => /\ raised' = NotConnected
             /\ wrote' = <<>>
             /\ UNCHANGED <<connected, sessionId, username, currentRoomKey>>]_vars

C2_Witness ==
    /\ op = "authenticate"
    /\ arg = <<97>>
    /\ ~connectOk
    /\ wtState = "connected"
    /\ raised = NotConnected

(***************************************************************************)
(* C3.  For every session identifier s, 0 included: the dispatch of an     *)
(* AUTH_RESPONSE_SUCCESS carrying s fires onAuthSuccess(s), and a joinRoom *)
(* on the session that is still connected and holds s passes its           *)
(* precondition and sends one JOIN_ROOM_REQUEST.                           *)
(***************************************************************************)
C3_JoinRoomAfterAuthSuccess ==
    /\ (op = "readDatagram" /\ arg = <<AUTH_RESPONSE_SUCCESS>>)
          => fired = <<Ev("onAuthSuccess", <<Zero>>)>> /\ sessionId = Some(Zero)
    /\ (op = "readDatagram" /\ arg = <<AUTH_RESPONSE_SUCCESS, 8, 42>>)
          => fired = <<Ev("onAuthSuccess", <<(<<42>>)>>)>> /\ sessionId = Some(<<42>>)
    /\ (op = "joinRoom" /\ connected /\ sessionId # Null)
          => /\ raised # NotAuthenticated
             /\ Len(wrote) = 1
             /\ FirstByte(wrote[1]) = JOIN_ROOM_REQUEST

(***************************************************************************)
(* C4, as stated.  sendVoice succeeds only once a JOIN_ROOM_RESPONSE has   *)
(* been received after the latest joinRoom, with no leaveRoom or close     *)
(* since: in every other state it fails and issues no datagram write.      *)
(***************************************************************************)
C4_SendVoiceNeedsJoinResponse ==
    (op = "sendVoiceData" /\ ~joinAcked) => (raised # NoError /\ wrote = <<>>)

\* The session is connected and holds a session identifier, a room key and
\* the datagram writer.
HoldsRoom ==
    /\ connected
    /\ sessionId # Null
    /\ currentRoomKey # Null
    /\ datagramWriter # Null

(***************************************************************************)
(* C4, amended.  sendVoice succeeds only while the session is connected    *)
(* and holds a session identifier, a room key recorded by joinRoom and the *)
(* datagram writer, whether or not a JOIN_ROOM_RESPONSE has arrived; in    *)
(* every other state it fails with NotConnected, NotAuthenticated,         *)
(* NotInRoom or TransportUnavailable and issues no datagram write.         *)
(***************************************************************************)
C4_SendVoiceNeedsRoomKey ==
    (op = "sendVoiceData" /\ ~HoldsRoom)
        => /\ raised \in {NotConnected, NotAuthenticated, NotInRoom,
                          TransportUnavailable}
           /\ wrote = <<>>

C4_Witness ==
    /\ op = "sendVoiceData"
    /\ connected
    /\ sessionId = Some(<<42>>)
    /\ currentRoomKey = Null
    /\ raised = NotInRoom

(***************************************************************************)
(* C5.  Voice frame round trip: the datagram sendVoice produces for the    *)
(* held (non-zero) session id and an audio payload, fed to the inbound     *)
(* datagram dispatch, fires onVoiceData with exactly that id and payload.  *)
(***************************************************************************)
C5_VoiceRoundTrip ==
    \A audio \in AudioPayloads :
        (op = "readDatagram" /\ ~NotBigInt(sessionId) /\ arg = voiceDataPacket(audio))
            => fired = <<Ev("onVoiceData", <<Get(sessionId), audio>>)>>

(***************************************************************************)
(* C6.  A datagram whose first byte is in 0..6 never fires onVoiceData; a  *)
(* datagram that begins with 0xFF and is shorter than 9 bytes fires no     *)
(* event at all and changes no session state.                              *)
(***************************************************************************)
C6_DatagramClassification ==
    [][op' = "readDatagram"
          => /\ FirstByte(arg') \in 0..6 => "onVoiceData" \notin FiredNames(fired')
             /\ (FirstByte(arg') = 255 /\ Len(arg') < 9)
                   => /\ fired' = <<>>
                      /\ raised' = NoError
                      /\ UNCHANGED <<clientVars, joinAcked>>]_vars

C6_Witness ==
    /\ op = "readDatagram"
    /\ Len(arg) = 8
    /\ FirstByte(arg) = 255
    /\ fired = <<>>
    /\ sessionId # Null

(***************************************************************************)
(* C7.  close() completes without raising from every state, and then the   *)
(* datagram writer is released, the session is not connected and session   *)
(* identifier, username and room key are absent.                           *)
(***************************************************************************)
C7_CloseFromAnyState ==
    op = "close"
        => /\ raised = NoError
           /\ datagramWriter = Null
           /\ ~connected
           /\ sessionId = Null
           /\ username = Null
           /\ currentRoomKey = Null

(***************************************************************************)
(* C8, as stated.  Once the transport's closed signal has fired, the       *)
(* session holds neither a session identifier nor a room key.              *)
(***************************************************************************)
C8_ClosedSignalClearsCredentials ==
    op = "closedSignal" => (~connected /\ sessionId = Null /\ currentRoomKey = Null)

(***************************************************************************)
(* C8, amended.  When the transport's closed signal fires, normally or     *)
(* abruptly, the session is marked not connected and onConnectionClosed    *)
(* or onConnectionError fires; session identifier, username and room key   *)
(* stay as they were.  They are cleared, together, only by a close() that  *)
(* completes.                                                              *)
(***************************************************************************)
C8_ClosedSignalOnlyDisconnects ==
    [][/\ op' = "closedSignal"
          => /\ ~connected'
             /\ Len(fired') = 1
             /\ fired'[1].name \in {"onConnectionClosed", "onConnectionError"}
             /\ UNCHANGED <<sessionId, username, currentRoomKey>>
       /\ ((sessionId # Null /\ sessionId' = Null)
             \/ (currentRoomKey # Null /\ currentRoomKey' = Null /\ op' # "leaveRoom"))
          => /\ op' = "close"
             /\ raised' = NoError
             /\ sessionId' = Null
             /\ currentRoomKey' = Null]_vars

C8_Witness ==
    /\ op = "closedSignal"
    /\ ~connected
    /\ sessionId # Null
    /\ currentRoomKey # Null

(***************************************************************************)
(* C9.  A USER_LEFT with an 8-byte payload never raises and fires          *)
(* onUserLeft exactly once, with the identifier those 8 bytes encode,      *)
(* before or after any JOIN_ROOM_RESPONSE, and leaves connected, session   *)
(* id and room key as they were.                                           *)
(***************************************************************************)
C9_UserLeftAlwaysFires ==
    [][(op' = "readDatagram" /\ Len(arg') = 9 /\ FirstByte(arg') = USER_LEFT)
          => /\ raised' = NoError
             /\ \E id \in WireIds :
                   /\ arg' = <<6>> \o BE64(id)
                   /\ fired' = <<Ev("onUserLeft", <<id>>)>>
             /\ UNCHANGED <<connected, sessionId, currentRoomKey>>]_vars

C9_Witness ==
    /\ op = "readDatagram"
    /\ arg = <<6, 0, 0, 0, 0, 0, 0, 0, 7>>
    /\ fired = <<Ev("onUserLeft", <<(<<7>>)>>)>>
    /\ ~joinAcked
    /\ currentRoomKey # Null

(***************************************************************************)
(* C10.  joinRoom(roomKey) without a held session identifier fails with a  *)
(* precondition error, issues no datagram write and does not record the    *)
(* room key; on a connected session that holds a session identifier it     *)
(* records roomKey and issues exactly one JOIN_ROOM_REQUEST datagram.      *)
(***************************************************************************)
C10_JoinRoomPrecondition ==
    [][op' = "joinRoom"
          => /\ sessionId = Null
                => /\ raised' \in {NotConnected, NotAuthenticated}
                   /\ wrote' = <<>>
                   /\ UNCHANGED currentRoomKey
             /\ (sessionId # Null /\ connected)
                => /\ currentRoomKey' = Some(arg')
                   /\ Len(wrote') = 1
                   /\ FirstByte(wrote'[1]) = JOIN_ROOM_REQUEST]_vars

(***************************************************************************)
(* C11.  leaveRoom() on a session that is in a room (connected, holding a  *)
(* session identifier and a room key) does not raise, clears the room key, *)
(* issues no write and leaves connected and the session identifier as they *)
(* were; on a session that holds no room key it fails with a precondition  *)
(* error and changes nothing.                                              *)
(***************************************************************************)
C11_LeaveRoomInRoom ==
    [][op' = "leaveRoom"
          => /\ (connected /\ sessionId # Null /\ currentRoomKey # Null)
                => /\ raised' = NoError
                   /\ currentRoomKey' = Null
                   /\ wrote' = <<>>
                   /\ UNCHANGED <<connected, sessionId>>
             /\ currentRoomKey = Null
                => /\ raised' \in {NotConnected, NotAuthenticated, NotInRoom}
                   /\ wrote' = <<>>
                   /\ UNCHANGED clientVars]_vars

(***************************************************************************)
(* C12.  The engine holds the room's membership and it follows the packets *)
(* in arrival order: in a joined room, a JOIN_ROOM_RESPONSE with roster    *)
(* [7] makes it {7}, a                                                     *)
(* USER_LEFT(7) that arrives next makes it empty and a USER_JOINED(9) that *)
(* arrives next makes it {7, 9}.  So the second packet changes what the    *)
(* engine holds: some field of the engine differs after its dispatch.      *)
(***************************************************************************)
C12_MembershipFollowsPackets ==
    [][(/\ op = "readDatagram"
        /\ arg = <<JOIN_ROOM_RESPONSE, 10, 2, 8, 7>>
        /\ FiredNames(fired) = {"onJoinedRoom"}
        /\ connected
        /\ ~NotBigInt(sessionId)
        /\ ~NotString(currentRoomKey)
        /\ joinAcked
        /\ op' = "readDatagram"
        /\ arg' \in {<<USER_LEFT>> \o BE64(<<7>>), <<USER_JOINED, 8, 9>>}
        /\ fired' # <<>>)
          => clientVars' # clientVars]_vars

(***************************************************************************)
(* C13.  Once close() has been called on a connected session whose three   *)
(* read loops are each awaiting their next unit, every one of the three    *)
(* loops eventually terminates.                                            *)
(***************************************************************************)
C13_CloseEndsLoops ==
    (/\ op = "closeCall"
     /\ connected
     /\ \A l \in Loops : loop[l] = "reading")
        ~> (\A l \in Loops : loop[l] \in {"done", "failed"})

C13_Witness ==
    /\ op = "loopEnd"
    /\ \A l \in Loops : loop[l] = "done"
    /\ wtState = "closed"
    /\ writableState = "closed"
    /\ datagramWriter = Null
    /\ closedHandlers = 1

(***************************************************************************)
(* C14.  The session identifier is set only by the dispatch of an          *)
(* AUTH_RESPONSE_SUCCESS, to the identifier that packet carries, and is    *)
(* removed only by close(): authenticate() leaves it as it was, and so     *)
(* does every other inbound packet, whatever has arrived before; every     *)
(* AUTH_RESPONSE_SUCCESS that is dispatched replaces it, so the identifier *)
(* held is the one received last.                                          *)
(***************************************************************************)
C14_SessionIdOnlyFromAuthSuccess ==
    [][/\ op' = "authenticate" => UNCHANGED sessionId
       /\ (op' \in InboundOps /\ FirstByte(arg') # AUTH_RESPONSE_SUCCESS)
             => UNCHANGED sessionId
       /\ sessionId' # sessionId
             => \/ op' = "close" /\ sessionId' = Null
                \/ /\ op' \in InboundOps
                   /\ FirstByte(arg') = AUTH_RESPONSE_SUCCESS
                   /\ sessionId' # Null
                   /\ fired' = <<Ev("onAuthSuccess", <<Get(sessionId')>>)>>
       /\ (op' \in InboundOps /\ arg' = <<AUTH_RESPONSE_SUCCESS, 8, 42>>)
             => sessionId' = Some(<<42>>)
       /\ (op' \in InboundOps /\ arg' = <<AUTH_RESPONSE_SUCCESS>>)
             => sessionId' = Some(Zero)]_vars

C14_Witness ==
    /\ op = "readFromStream"
    /\ arg = <<AUTH_RESPONSE_SUCCESS, 8, 42>>
    /\ sessionId = Some(<<42>>)
    /\ username = Some(<<97>>)

(***************************************************************************)
(* C15.  The dispatch of an AUTH_RESPONSE_ERROR (here of type 1), in any   *)
(* state, does not raise, fires onAuthError exactly once with the carried  *)
(* error type and nothing else, and leaves connected, the session          *)
(* identifier (absent or present), username and room key as they were.     *)
(***************************************************************************)
C15_AuthErrorKeepsState ==
    [][(op' = "readDatagram" /\ arg' = <<AUTH_RESPONSE_ERROR, 8, 1>>)
          => /\ raised' = NoError
             /\ fired' = <<Ev("onAuthError", <<(<<1>>)>>)>>
             /\ UNCHANGED clientVars]_vars

C15_Witness ==
    /\ op = "readDatagram"
    /\ arg = <<AUTH_RESPONSE_ERROR, 8, 1>>
    /\ fired = <<Ev("onAuthError", <<(<<1>>)>>)>>
    /\ sessionId = Some(<<42>>)
    /\ username = Some(<<97>>)
    /\ currentRoomKey = Some(<<114>>)

(***************************************************************************)
(* C16.  Whichever loop delivers it -- the datagram loop or a fully read   *)
(* unidirectional or bidirectional stream -- a payload of at least 9 bytes *)
(* that begins with 0xFF fires onVoiceData(senderId, audio), senderId      *)
(* being bytes 2..9 as a big-endian integer and audio the rest, and        *)
(* changes no session state.                                               *)
(***************************************************************************)
C16_VoiceProbeOnEveryLoop ==
    [][(op' \in InboundOps /\ Len(arg') >= 9 /\ FirstByte(arg') = VoiceMarker)
          => /\ fired' = <<Ev("onVoiceData",
                              <<bytesToBigInt(SubSeq(arg', 2, 9)),
                                SubSeq(arg', 10, Len(arg'))>>)>>
             /\ UNCHANGED clientVars]_vars

(***************************************************************************)
(* C17.  A step in which a read loop observes the end of its channel or a  *)
(* failure ends that loop and no other: with a failure it fires            *)
(* onConnectionError once, with the end of the channel it fires nothing;   *)
(* the other loops, the readFromStream calls and the session fields stay   *)
(* as they were.  No other step ends a loop: a failed readFromStream, the  *)
(* closed signal and a dispatch leave all three loops as they were.        *)
(***************************************************************************)
C17_LoopIsolation ==
    [][/\ op' = "loopEnd"
          => /\ \E l \in Loops :
                   /\ loop[l] = "reading"
                   /\ loop'[l] \in {"done", "failed"}
                   /\ \A m \in Loops \ {l} : loop'[m] = loop[m]
                   /\ loop'[l] = "failed"
                         => /\ Len(fired') = 1
                            /\ fired'[1].name = "onConnectionError"
                   /\ loop'[l] = "done" => fired' = <<>>
             /\ UNCHANGED <<clientVars, streams>>
       /\ op' \notin {"loopEnd", "connect"} => loop' = loop]_vars

C17_Witness ==
    /\ op = "loopEnd"
    /\ FiredNames(fired) = {"onConnectionError"}
    /\ Cardinality({l \in Loops : loop[l] = "failed"}) = 1
    /\ Cardinality({l \in Loops : loop[l] = "reading"}) = 2
    /\ \E s \in Streams : streams[s].st = "reading" /\ streams[s].chunks # <<>>

\* The steps of the accept loops and of readFromStream.
StreamOps == {"acceptStream", "streamChunk", "readFromStream", "streamError"}

\* The first n chunks, one after the other.
RECURSIVE JoinedFirst(_, _)
JoinedFirst(chunks, n) ==
    IF n = 0 THEN <<>> ELSE JoinedFirst(chunks, n - 1) \o chunks[n]

(***************************************************************************)
(* C18.  Per accepted stream there is at most one dispatch.  Accepting a   *)
(* stream and taking in a chunk dispatch nothing (no event, no change of   *)
(* the session fields), and a chunk is added at the end of its own         *)
(* stream's chunks and nowhere else.  When a stream ends, the bytes        *)
(* dispatched are its chunks in arrival order: the chunks [1], [8, 42]     *)
(* give the AUTH_RESPONSE_SUCCESS of identifier 42, the chunks [8, 42],    *)
(* [1] give nothing.  A stream whose read fails fires onConnectionError,   *)
(* dispatches nothing and leaves the accept loops running.  A stream that  *)
(* has ended or failed never changes again.                                *)
(***************************************************************************)
C18_StreamDispatchedOnce ==
    [][/\ op' \in {"acceptStream", "streamChunk"}
          => fired' = <<>> /\ UNCHANGED <<clientVars, loop>>
       /\ op' = "streamChunk"
          => \E s \in Streams :
                /\ streams[s].st = "reading"
                /\ streams' = [streams EXCEPT ![s].chunks = Append(@, arg')]
       /\ op' = "readFromStream"
          => /\ \E s \in Streams :
                   /\ streams[s].st = "reading"
                   /\ streams'[s].st = "done"
                   /\ \A t \in Streams \ {s} : streams'[t] = streams[t]
                   /\ arg' = JoinedFirst(streams[s].chunks, Len(streams[s].chunks))
             /\ Len(fired') <= 1
             /\ arg' = <<AUTH_RESPONSE_SUCCESS, 8, 42>>
                   => /\ fired' = <<Ev("onAuthSuccess", <<(<<42>>)>>)>>
                      /\ sessionId' = Some(<<42>>)
             /\ arg' = <<8, 42, AUTH_RESPONSE_SUCCESS>>
                   => fired' = <<>> /\ UNCHANGED clientVars
             /\ loop' = loop
       /\ op' = "streamError"
          => /\ \E s \in Streams :
                   /\ streams[s].st = "reading"
                   /\ streams'[s].st = "failed"
                   /\ \A t \in Streams \ {s} : streams'[t] = streams[t]
             /\ FiredNames(fired') = {"onConnectionError"}
             /\ UNCHANGED <<clientVars, loop>>
       /\ \A s \in Streams :
             streams[s].st \in {"done", "failed"} => streams'[s] = streams[s]
       /\ op' \notin StreamOps => streams' = streams]_vars

C18_Witness ==
    /\ op = "readFromStream"
    /\ arg = <<AUTH_RESPONSE_SUCCESS, 8, 42>>
    /\ fired = <<Ev("onAuthSuccess", <<(<<42>>)>>)>>
    /\ \E s, t \in Streams :
          /\ streams[s].st = "done"
          /\ streams[t] = ReadingStream(<< <<8, 42>> >>)

\* Control datagrams with a type byte and a body that does not parse: a
\* varint cut short, a length that runs past the end, a USER_LEFT payload
\* of fewer than 8 bytes.
MalformedBodies ==
    { <<AUTH_RESPONSE_SUCCESS, 8>>, <<AUTH_RESPONSE_ERROR, 8>>,
      <<JOIN_ROOM_RESPONSE, 10, 5, 8>>, <<USER_JOINED, 8>>, <<USER_LEFT, 0, 0, 7>> }

\* The five packet types the server sends.
ServerPacketTypes ==
    {AUTH_RESPONSE_SUCCESS, AUTH_RESPONSE_ERROR, JOIN_ROOM_RESPONSE, USER_JOINED,
     USER_LEFT}

(***************************************************************************)
(* C19.  An inbound control datagram that is empty, whose type byte is     *)
(* none of the five server-to-client types (0 and 3 included), or whose    *)
(* body does not parse, raises nothing into the read loop, fires no event, *)
(* leaves the session state as it was, and the datagram loop goes on       *)
(* reading.                                                                *)
(***************************************************************************)
C19_DecodeErrorsDropped ==
    [][(/\ op' = "readDatagram"
        /\ \/ FirstByte(arg') \notin ServerPacketTypes \cup {VoiceMarker}
           \/ arg' \in MalformedBodies)
          => /\ raised' = NoError
             /\ fired' = <<>>
             /\ UNCHANGED <<clientVars, joinAcked>>
             /\ loop' = loop
             /\ loop'["datagrams"] = "reading"]_vars

C19_Witness ==
    /\ op = "readDatagram"
    /\ arg = <<AUTH_RESPONSE_SUCCESS, 8>>
    /\ fired = <<>>
    /\ sessionId = Some(<<42>>)
    /\ currentRoomKey # Null
    /\ loop["datagrams"] = "reading"

\* The calls that send.
SendOps == {"authenticate", "joinRoom", "sendVoiceData"}

\* A message with one string field, as it goes on the wire after its type.
OneStringMessage(text) ==
    IF text = <<>> THEN <<>> ELSE <<10, Len(text)>> \o text

(***************************************************************************)
(* C20.  Every outbound datagram is written through the datagram writer,   *)
(* which is obtained only by connect() and only while the writable is not  *)
(* yet locked.  In whatever order authenticate, joinRoom and sendVoice     *)
(* calls are made, each call issues at most one write, exactly one when it *)
(* does not raise, and what it writes is its whole message and nothing     *)
(* else: the type byte and the whole request, or the marker byte and the   *)
(* whole audio.  No other step writes.                                     *)
(***************************************************************************)
C20_OneWholeDatagramPerCall ==
    [][/\ op' = "authenticate"
          => wrote' \in {<<>>, << <<AUTH_REQUEST>> \o OneStringMessage(arg') >>}
       /\ op' = "joinRoom"
          => wrote' \in {<<>>, << <<JOIN_ROOM_REQUEST>> \o OneStringMessage(arg') >>}
       /\ op' = "sendVoiceData"
          => \/ wrote' = <<>>
             \/ /\ Len(wrote') = 1
                /\ Len(wrote'[1]) > Len(arg')
                /\ wrote'[1][1] = VoiceMarker
                /\ SubSeq(wrote'[1], Len(wrote'[1]) - Len(arg') + 1,
                          Len(wrote'[1])) = arg'
       /\ (op' \in SendOps /\ raised' = NoError) => Len(wrote') = 1
       /\ op' \notin SendOps => wrote' = <<>>
       /\ wrote' # <<>> => datagramWriter # Null /\ datagramWriter' = datagramWriter
       /\ (datagramWriter' # datagramWriter /\ datagramWriter' # Null)
             => op' = "connect" /\ ~writableLocked /\ writableLocked']_vars

C20_Witness ==
    /\ op = "joinRoom"
    /\ arg = <<114>>
    /\ raised = NoError
    /\ wrote = << <<JOIN_ROOM_REQUEST, 10, 1, 114>> >>
    /\ username = Some(<<97>>)
    /\ currentRoomKey = Some(<<114>>)

(***************************************************************************)
(* C21.  A connect() that finds the transport ready, on a session no       *)
(* earlier connect() has connected, does not raise and fires onConnected   *)
(* and nothing else, and when onConnected fires the session is marked      *)
(* connected, holds the datagram writer and has all three read loops       *)
(* reading; onConnected fires only then, so never twice.  A connect() that *)
(* finds the readiness failed raises and fires onConnectionError once and  *)
(* nothing else; while the readiness has failed the session is not         *)
(* connected, holds no writer, has no read loop started, and authenticate  *)
(* fails with NotConnected.                                                *)
(***************************************************************************)
C21_ConnectOutcome ==
    [][/\ (op' = "connect" /\ wtReady = "resolved" /\ ~connectOk)
          => /\ raised' = NoError
             /\ fired' = <<Ev("onConnected", <<>>)>>
       /\ "onConnected" \in FiredNames(fired')
          => /\ op' = "connect"
             /\ ~connectOk
             /\ connectOk'
             /\ connected'
             /\ datagramWriter' # Null
             /\ \A l \in Loops : loop[l] = "notStarted" /\ loop'[l] = "reading"
       /\ (op' = "connect" /\ wtReady = "rejected")
          => /\ raised' # NoError
             /\ Len(fired') = 1
             /\ fired'[1].name = "onConnectionError"
       /\ wtReady' = "rejected"
          => /\ ~connected'
             /\ datagramWriter' = Null
             /\ \A l \in Loops : loop'[l] = "notStarted"
             /\ op' = "authenticate" => raised' = NotConnected]_vars

C21_Witness ==
    /\ op = "connect"
    /\ raised = NoError
    /\ fired = <<Ev("onConnected", <<>>)>>
    /\ connected
    /\ datagramWriter # Null
    /\ \A l \in Loops : loop[l] = "reading"
    /\ wtState = "connected"

(***************************************************************************)
(* C23.  A connect() that completes on a session which is connected, holds *)
(* the writer of an earlier connect() and whose transport is still open    *)
(* leaves the session connected with the same writer and the same read     *)
(* loops, and fires no onConnectionError.                                  *)
(***************************************************************************)
C23_SecondConnectKeepsSession ==
    [][(/\ op' = "connect"
        /\ connected
        /\ datagramWriter # Null
        /\ wtState = "connected"
        /\ wtState' = "connected")
          => /\ connected'
             /\ datagramWriter' = datagramWriter
             /\ loop' = loop
             /\ "onConnectionError" \notin FiredNames(fired')]_vars

(***************************************************************************)
(* C22.  In every reachable state a held room key implies a held session   *)
(* identifier (currentRoomKey is non-null only if sessionId is non-null).  *)
(* A room key is first recorded, by joinRoom, when a session identifier is *)
(* already held, and a session identifier is given up only by close(),     *)
(* which gives up the room key with it.                                    *)
(***************************************************************************)
C22_RoomKeyImpliesSessionId ==
    [][/\ currentRoomKey' # Null => sessionId' # Null
       /\ (currentRoomKey = Null /\ currentRoomKey' # Null)
             => op' = "joinRoom" /\ sessionId # Null
       /\ (sessionId # Null /\ sessionId' = Null)
             => op' = "close" /\ currentRoomKey' = Null]_vars

C22_Witness ==
    /\ currentRoomKey = Some(<<114>>)
    /\ sessionId = Some(<<42>>)
    /\ op = "readDatagram"
    /\ arg = <<JOIN_ROOM_RESPONSE, 10, 2, 8, 7>>
    /\ ~connected

(***************************************************************************)
(* C24.  An authenticate, joinRoom or sendVoice call that runs while       *)
(* close() is suspended awaiting the closure of the datagram writer issues *)
(* no write: it fails its precondition check with NotConnected or          *)
(* TransportUnavailable.                                                   *)
(***************************************************************************)
C24_NoWriteWhileClosing ==
    [][(op' \in SendOps /\ pcClose = "awaitWriterClose")
          => /\ wrote' = <<>>
             /\ raised' \in {NotConnected, TransportUnavailable}]_vars

(***************************************************************************)
(* C25.  Every session identifier handed to onVoiceData or onUserLeft is   *)
(* the big-endian value of exactly the 8 bytes that follow the datagram's  *)
(* first byte, hence at most 2^64-1 (8 base-256 digits), whatever the      *)
(* length of the payload; a USER_LEFT body shorter than 8 bytes fires no   *)
(* event.                                                                  *)
(***************************************************************************)
C25_IdentifierFromEightBytes ==
    [][(op' = "readDatagram" /\ FirstByte(arg') \in {VoiceMarker, USER_LEFT})
          => /\ \A i \in 1..Len(fired') :
                   fired'[i].name \in {"onVoiceData", "onUserLeft"}
                      => /\ Len(arg') >= 9
                         /\ fired'[i].args[1] = bytesToBigInt(SubSeq(arg', 2, 9))
                         /\ Len(fired'[i].args[1]) <= 8
             /\ (FirstByte(arg') = USER_LEFT /\ Len(arg') < 9) => fired' = <<>>]_vars

====
